---- MODULE Spec2Model ----
(***************************************************************************)
(* Model of the rag-fastapi document ingestion and retrieval pipeline:     *)
(* app.py (upload_file, find_similar_chunks), file_parser.py (FileParser,  *)
(* ParserFactory, TxtParser, PdfParser), background_tasks.py               *)
(* (TextProcessor.chunk_and_embed) and db.py (File, FileChunk).            *)
(*                                                                         *)
(* A text (str) is a sequence of tokens; the token " " is whitespace and   *)
(* every other token is a run of non-whitespace-separated characters.      *)
(* A file name or path is a sequence of tokens in which "." is the dot.    *)
(***************************************************************************)
EXTENDS Integers, Sequences, FiniteSets, TLC

VARIABLES
    disk,         \* the "sources" folder: file name -> stored bytes (or NoFile)
    files,        \* table files: sequence of File rows, file_id = index
    file_chunks,  \* table file_chunks: sequence of FileChunk rows, chunk_id = index
    tasks,        \* background tasks added by upload_file (TextProcessor objects)
    resp,         \* the response of the last request handled
    opened,       \* names of the stored files a parser has opened for reading
    pdf_in,       \* PdfParser.parse: the file given to it
    pdf_out       \* PdfParser.parse: the text returned

vars == <<disk, files, file_chunks, tasks, resp, opened, pdf_in, pdf_out>>

-----------------------------------------------------------------------------
(* Bounds of the model *)

MaxFiles == 2        \* File rows created by uploads
MaxSentences == 5    \* sentences of a text given directly to a TextProcessor
MaxChunkSize == 3    \* |chunk_size| of a TextProcessor constructed directly
MaxPages == 3        \* pages of a PDF given directly to PdfParser

-----------------------------------------------------------------------------
(* Generic helpers *)

Max(S) == CHOOSE x \in S : \A y \in S : y <= x

Min2(a, b) == IF a <= b THEN a ELSE b

RECURSIVE Flatten(_)
Flatten(ss) == IF ss = <<>> THEN <<>> ELSE Head(ss) \o Flatten(Tail(ss))

RECURSIVE SumLen(_)
SumLen(toks) == IF toks = <<>> THEN 0 ELSE Len(Head(toks)) + SumLen(Tail(toks))

SP == " "
DOT == "."

-----------------------------------------------------------------------------
(* file_parser.py: file names, extensions and the parser registry *)

\* split('.')[1]: the segment after the first dot
ExtensionAfterFirstDot(name) ==
    LET dots == {i \in 1..Len(name) : name[i] = DOT}
        first == CHOOSE i \in dots : \A j \in dots : i <= j
        later == {i \in dots : i > first}
    IN  IF dots = {} THEN name
        ELSE IF later = {} THEN SubSeq(name, first + 1, Len(name))
        ELSE SubSeq(name, first + 1,
                    (CHOOSE i \in later : \A j \in later : i <= j) - 1)

\* str.split('.')[-1]: the tokens after the last dot, the whole name when
\* it holds no dot.
Extension(name) ==
    LET dots == {i \in 1..Len(name) : name[i] = DOT}
    IN  IF dots = {} THEN name ELSE SubSeq(name, Max(dots) + 1, Len(name))

\* app.py: allowed_extensions = ["txt", "pdf"]
AllowedExtensions == {<<"txt">>, <<"pdf">>}

\* ParserFactory._parsers after the two register_parser calls
RegisteredParsers == {<<"txt">>, <<"pdf">>}

\* os.path.join("sources", file.filename)
FileLocation(name) == <<"sources", "/">> \o name

-----------------------------------------------------------------------------
(* Stored bytes.  A file is described by what the libraries make of it.    *)

NoText == <<>>

NoFile ==
    [kind |-> "none", decodable |-> FALSE, text |-> NoText,
     readable |-> FALSE, decrypt |-> "none", pages |-> <<>>]

\* a text file holding `text`
TxtFile(text) ==
    [kind |-> "txt", decodable |-> TRUE, text |-> text,
     readable |-> FALSE, decrypt |-> "none", pages |-> <<>>]

\* a PDF: `readable` is whether PyPDF2 can open it, `decrypt` is "none"
\* (not encrypted), "ok", "raise" (decrypt('') raises) or "denied"
\* (decrypt('') returns without decrypting); a page has its text layer, what
\* extract_text does ("ok" or "raise"), and what OCR makes of its image.
PdfFile(readable, decrypt, pages) ==
    [kind |-> "pdf", decodable |-> FALSE, text |-> NoText,
     readable |-> readable, decrypt |-> decrypt, pages |-> pages]

Page(extract, layer, ocr_ok, ocr) ==
    [extract |-> extract, layer |-> layer, ocr_ok |-> ocr_ok, ocr |-> ocr]

-----------------------------------------------------------------------------
(* file_parser.py: the parsers *)

ErrTxt == <<"Error reading text file">>
ErrPdf == <<"Error processing PDF file">>
ErrDecrypt == <<"Unable to decrypt PDF">>
ErrOcr == <<"Error in OCR processing">>

\* TxtParser.parse
TxtParse(file) == IF file.decodable THEN file.text ELSE ErrTxt

\* _ocr_page returning the empty string when OCR raises
OcrPageEmptyOnError(page) == IF page.ocr_ok THEN page.ocr ELSE NoText

\* PdfParser._ocr_page: the OCR text, or the error string when OCR raises
OcrPage(page) == IF page.ocr_ok THEN page.ocr ELSE ErrOcr

\* PdfParser.parse, body of the page loop: `if not page_content` sends the
\* page to OCR
PageContent(page) == IF page.layer # NoText THEN page.layer ELSE OcrPage(page)

\* PdfParser.parse: [text |-> the string returned, ocr |-> the pages
\* _ocr_page was called on]
PdfParse(file) ==
    LET n == Len(file.pages)
        raising == {i \in 1..n : file.pages[i].extract = "raise"}
        \* the loop runs up to the first page whose extract_text raises
        last == IF raising = {} THEN n
                ELSE (CHOOSE i \in raising : \A j \in raising : i <= j) - 1
        ocrd == {i \in 1..last : file.pages[i].layer = NoText}
    IN  IF ~file.readable THEN [text |-> ErrPdf, ocr |-> {}]
        ELSE IF file.decrypt = "raise" THEN [text |-> ErrDecrypt, ocr |-> {}]
        ELSE IF file.decrypt = "denied" THEN [text |-> ErrPdf, ocr |-> {}]
        ELSE IF raising # {} THEN [text |-> ErrPdf, ocr |-> ocrd]
        ELSE [text |-> Flatten([i \in 1..n |-> PageContent(file.pages[i])]),
              ocr |-> ocrd]

\* FileParser.parse after the existence check: the registered parser's parse
ParserParse(ext, file) ==
    IF ext = <<"pdf">> THEN PdfParse(file).text ELSE TxtParse(file)

-----------------------------------------------------------------------------
(* background_tasks.py: sentences, chunks, embeddings *)

\* nltk sent_tokenize: the text is cut at its whitespace tokens; tokens with
\* no whitespace between them stay in one sentence.
RECURSIVE SplitSentences(_, _)
SplitSentences(text, cur) ==
    LET done == IF cur = <<>> THEN <<>> ELSE <<cur>>
    IN  IF text = <<>> THEN done
        ELSE IF Head(text) = SP THEN done \o SplitSentences(Tail(text), <<>>)
        ELSE SplitSentences(Tail(text), Append(cur, Head(text)))

SentTokenize(text) == SplitSentences(text, <<>>)

\* ' '.join(sentences)
RECURSIVE JoinSpace(_)
JoinSpace(ss) ==
    IF ss = <<>> THEN <<>>
    ELSE IF Len(ss) = 1 THEN ss[1]
    ELSE ss[1] \o <<SP>> \o JoinSpace(Tail(ss))

\* range(0, stop, step) for step # 0
PyRange0(stop, step) ==
    IF step > 0
    THEN [k \in 1..((stop + step - 1) \div step) |-> (k - 1) * step]
    ELSE <<>>

\* PySlice with the end index taken as inclusive
PySliceInclusive(seq, i, j) == SubSeq(seq, i + 1, Min2(j + 1, Len(seq)))

\* seq[i:j] for 0 <= i <= j
PySlice(seq, i, j) == SubSeq(seq, i + 1, Min2(j, Len(seq)))

\* the list comprehension of chunk_and_embed (chunk_size # 0)
ChunkSentences(sentences, chunk_size) ==
    LET starts == PyRange0(Len(sentences), chunk_size)
    IN  [k \in 1..Len(starts) |->
            JoinSpace(PySlice(sentences, starts[k], starts[k] + chunk_size))]

\* the embedding model, a pure function of the text: here the vector
\* (characters, sentences)
Embed(text) == <<SumLen(text), Len(SentTokenize(text))>>

\* pgvector l2_distance, squared (the order is the same)
L2Sq(u, v) ==
    (u[1] - v[1]) * (u[1] - v[1]) + (u[2] - v[2]) * (u[2] - v[2])

-----------------------------------------------------------------------------
(* db.py: the two tables.  A session's added rows reach the table at       *)
(* commit; a session that raises before its commit leaves the table as it  *)
(* was.                                                                    *)

\* File(file_name, file_content)
FileRow(name, text) == [file_name |-> name, file_content |-> text]

\* FileChunk(file_id, chunk_text, embedding_vector)
ChunkRow(file_id, text, vector) ==
    [file_id |-> file_id, chunk_text |-> text, embedding_vector |-> vector]

\* ForeignKey('files.file_id') on FileChunk.file_id, checked at commit
ForeignKeyOk(rows, file_rows) ==
    \A k \in 1..Len(rows) : rows[k].file_id \in 1..Len(file_rows)

-----------------------------------------------------------------------------
(* background_tasks.py: TextProcessor *)

\* TextProcessor.__init__: chunk_size defaults to 2
DefaultChunkSize == 2

TextProcessor(file_id, text, chunk_size) ==
    [file_id |-> file_id, text |-> text, chunk_size |-> chunk_size,
     status |-> "scheduled"]

\* The chunks chunk_and_embed forms, when range() accepts the step
ChunksOf(text, chunk_size) == ChunkSentences(SentTokenize(text), chunk_size)

\* chunk_and_embed committing inside the loop, one chunk at a time
ChunkAndEmbedCommitEach(table, file_rows, tp, fail_at) ==
    IF tp.chunk_size = 0
    THEN [status |-> "value_error", table |-> table]
    ELSE LET chunks == ChunksOf(tp.text, tp.chunk_size)
             added == [k \in 1..Len(chunks) |->
                          ChunkRow(tp.file_id, chunks[k], Embed(chunks[k]))]
         IN  IF ~ForeignKeyOk(added, file_rows)
             THEN [status |-> "integrity_error", table |-> table]
             ELSE IF fail_at \in 1..Len(chunks)
             THEN [status |-> "embedding_error",
                   table |-> table \o SubSeq(added, 1, fail_at - 1)]
             ELSE [status |-> "done", table |-> table \o added]

\* TextProcessor.chunk_and_embed(text).  fail_at = k > 0: the embedding call
\* raises for the k-th chunk; fail_at = 0: no embedding call raises.
\* Returns the outcome and the file_chunks table after it.
ChunkAndEmbed(table, file_rows, tp, fail_at) ==
    IF tp.chunk_size = 0
    THEN \* range() arg 3 must not be zero
         [status |-> "value_error", table |-> table]
    ELSE LET chunks == ChunksOf(tp.text, tp.chunk_size)
             added == [k \in 1..Len(chunks) |->
                          ChunkRow(tp.file_id, chunks[k], Embed(chunks[k]))]
         IN  IF fail_at \in 1..Len(chunks)
             THEN \* the loop is left before db.commit()
                  [status |-> "embedding_error", table |-> table]
             ELSE IF ~ForeignKeyOk(added, file_rows)
             THEN [status |-> "integrity_error", table |-> table]
             ELSE [status |-> "done", table |-> table \o added]

\* the number of embedding calls a task would make
EmbedCalls(tp) ==
    IF tp.chunk_size = 0 THEN 0 ELSE Len(ChunksOf(tp.text, tp.chunk_size))

-----------------------------------------------------------------------------
(* app.py: find_similar_chunks *)

\* .limit(10)
Limit == 10

\* the select statement without its where clause
AllChunks(table, file_id) == 1..Len(table)

\* where(FileChunk.file_id == file_id)
OwnedChunks(table, file_id) ==
    {c \in 1..Len(table) : table[c].file_id = file_id}

\* order_by(l2_distance): every order of the chunk ids in S that is
\* non-decreasing in distance; rows at equal distance come in any order.
RECURSIVE DistanceOrders(_, _, _)
DistanceOrders(table, S, qvec) ==
    IF S = {} THEN {<<>>}
    ELSE LET d(c) == L2Sq(table[c].embedding_vector, qvec)
             nearest == {c \in S : \A e \in S : d(c) <= d(e)}
         IN  UNION {{<<c>> \o rest : rest \in DistanceOrders(table, S \ {c}, qvec)}
                    : c \in nearest}

\* the rows the select statement may return, as chunk ids
SimilarChunks(table, file_id, qvec) ==
    {SubSeq(o, 1, Min2(Limit, Len(o))) :
        o \in DistanceOrders(table, OwnedChunks(table, file_id), qvec)}

\* formatted_response
FormatResponse(table, ids) ==
    [k \in 1..Len(ids) |->
        [chunk_id |-> ids[k], chunk_text |-> table[ids[k]].chunk_text]]

-----------------------------------------------------------------------------
(* Responses *)

NoName == <<>>
NoQuestion == <<>>

NoResponse ==
    [kind |-> "none", status |-> 0, detail |-> "", name |-> NoName,
     content |-> NoFile, file_id |-> 0, question |-> NoQuestion, body |-> <<>>]

\* the return value or the HTTPException of upload_file
UploadResponse(status, detail, name, content) ==
    [kind |-> "upload", status |-> status, detail |-> detail, name |-> name,
     content |-> content, file_id |-> 0, question |-> NoQuestion, body |-> <<>>]

\* the return value or the HTTPException of find_similar_chunks
QueryResponse(status, detail, file_id, question, body) ==
    [kind |-> "query", status |-> status, detail |-> detail, name |-> NoName,
     content |-> NoFile, file_id |-> file_id, question |-> question,
     body |-> body]

-----------------------------------------------------------------------------
(* Inputs *)

NotesName == <<"notes", DOT, "txt">>
ScanName == <<"scan", DOT, "pdf">>
UpperName == <<"a", DOT, "PDF">>
DoubleName == <<"a", DOT, "pdf", DOT, "exe">>
NoDotName == <<"README">>
BareTxtName == <<"txt">>

FileNames ==
    {NotesName, ScanName, UpperName, DoubleName, NoDotName, BareTxtName}

NotesText ==
    <<"Cats are mammals.", SP, "Dogs bark loudly.", SP,
      "Birds can fly.", SP, "Fish live in water.">>

\* A text of 2 * (Limit + 1) sentences, so that it has Limit + 1 chunks of
\* two sentences: "x. y. xx. y. xxx. y. ..."; the last two chunks have the
\* same text.
Xs ==
    <<"x.", "xx.", "xxx.", "xxxx.", "xxxxx.", "xxxxxx.", "xxxxxxx.",
      "xxxxxxxx.", "xxxxxxxxx.", "xxxxxxxxxx.">>

LongText ==
    JoinSpace(Flatten([k \in 1..(Limit + 1) |->
                          <<<<Xs[Min2(k, Len(Xs))]>>, <<"y.">>>>]))

NotesTxt == TxtFile(NotesText)
LongTxt == TxtFile(LongText)

\* a PDF of one page with a text layer and one image-only page
ScanPdf ==
    PdfFile(TRUE, "none",
            <<Page("ok", <<"Page one.", SP>>, TRUE, NoText),
              Page("ok", NoText, TRUE, <<"Page two.">>)>>)

\* the uploads: <<file name, bytes>>
UploadRequests ==
    {<<NotesName, NotesTxt>>, <<NotesName, LongTxt>>, <<ScanName, ScanPdf>>,
     <<UpperName, ScanPdf>>, <<DoubleName, ScanPdf>>, <<NoDotName, NotesTxt>>,
     <<BareTxtName, NotesTxt>>}

Questions == {<<"Who?">>}

NotParsed == [done |-> FALSE, text |-> NoText, ocr |-> {}]

-----------------------------------------------------------------------------
(* app.py: upload_file *)

\* the id of a row that is not committed yet
NextFreeFileId(file_rows) == Len(file_rows) + 1

\* db.refresh(new_file): the id of the row just committed
RefreshedFileId(file_rows) == Len(file_rows)

\* chunk_and_embed called in the handler, before the response
RunInHandler(table, file_rows, tp) ==
    LET out == ChunkAndEmbed(table, file_rows, tp, 0)
    IN  [task |-> [tp EXCEPT !.status = out.status], table |-> out.table]

\* background_tasks.add_task(TextProcessor(db, file_id).chunk_and_embed, text):
\* the task is kept for after the response, the table is not touched
AddTask(table, file_rows, tp) == [task |-> tp, table |-> table]

\* POST /uploadfile/.  db_ok: whether db.commit() succeeds.  The handler
\* parses the stored file first and writes the uploaded bytes afterwards;
\* from the commit to the return it does not await, so the row, the task
\* and the response appear in one step.
UploadFile(name, content, db_ok) ==
    /\ Len(files) < MaxFiles
    /\ LET file_location == FileLocation(name)
           text == ParserParse(Extension(file_location), disk[name])
           rows == Append(files, FileRow(name, text))
           added == AddTask(file_chunks, rows,
                            TextProcessor(RefreshedFileId(rows), text,
                                          DefaultChunkSize))
       IN  IF Extension(name) \notin AllowedExtensions
           THEN /\ resp' = UploadResponse(400, "File type not allowed", name, content)
                /\ UNCHANGED <<disk, files, file_chunks, tasks, opened>>
           ELSE IF Extension(file_location) \notin RegisteredParsers
           THEN \* FileParser.__init__ raises ValueError
                /\ resp' = UploadResponse(500, "Error saving file", name, content)
                /\ UNCHANGED <<disk, files, file_chunks, tasks, opened>>
           ELSE IF disk[name] = NoFile
           THEN \* FileParser.parse raises FileNotFoundError
                /\ resp' = UploadResponse(500, "Error saving file", name, content)
                /\ UNCHANGED <<disk, files, file_chunks, tasks, opened>>
           ELSE /\ opened' = opened \cup {name}
                /\ disk' = [disk EXCEPT ![name] = content]
                /\ IF db_ok
                   THEN /\ files' = rows
                        /\ tasks' = Append(tasks, added.task)
                        /\ file_chunks' = added.table
                        /\ resp' = UploadResponse(200, "File saved", name, content)
                   ELSE /\ resp' = UploadResponse(500, "Error saving file", name, content)
                        /\ UNCHANGED <<files, file_chunks, tasks>>
    /\ UNCHANGED <<pdf_in, pdf_out>>

\* A background task runs after its response: chunk_and_embed(text)
RunTask(i, fail_at) ==
    /\ i \in 1..Len(tasks)
    /\ tasks[i].status = "scheduled"
    /\ fail_at \in 0..EmbedCalls(tasks[i])
    /\ LET out == ChunkAndEmbed(file_chunks, files, tasks[i], fail_at)
       IN  /\ file_chunks' = out.table
           /\ tasks' = [tasks EXCEPT ![i].status = out.status]
    /\ UNCHANGED <<disk, files, resp, opened, pdf_in, pdf_out>>

\* POST /find-similar-chunks/{file_id}.  embed_ok: whether the embedding
\* call for the question succeeds.
FindSimilarChunks(file_id, question, embed_ok) ==
    /\ IF embed_ok
       THEN \E ids \in SimilarChunks(file_chunks, file_id, Embed(question)) :
               resp' = QueryResponse(200, "", file_id, question,
                                     FormatResponse(file_chunks, ids))
       ELSE resp' = QueryResponse(500, "embedding error", file_id, question,
                                  <<>>)
    /\ UNCHANGED <<disk, files, file_chunks, tasks, opened, pdf_in, pdf_out>>

\* The service starts with empty tables; the sources folder holds whatever
\* files were put there.
Init ==
    /\ disk \in [FileNames -> {NoFile, NotesTxt, LongTxt, ScanPdf}]
    /\ \A n \in FileNames :
          \/ disk[n] = NoFile
          \/ n = NotesName /\ disk[n] \in {NotesTxt, LongTxt}
          \/ n = ScanName /\ disk[n] = ScanPdf
    /\ files = <<>>
    /\ file_chunks = <<>>
    /\ tasks = <<>>
    /\ resp = NoResponse
    /\ opened = {}
    /\ pdf_in = NoFile
    /\ pdf_out = NotParsed

Next ==
    \/ \E r \in UploadRequests, db_ok \in BOOLEAN : UploadFile(r[1], r[2], db_ok)
    \/ \E i \in 1..MaxFiles, fail_at \in 0..(Limit + 1) : RunTask(i, fail_at)
    \/ \E file_id \in 1..(MaxFiles + 1), q \in Questions, embed_ok \in BOOLEAN :
          FindSimilarChunks(file_id, q, embed_ok)

Spec == Init /\ [][Next]_vars

-----------------------------------------------------------------------------
(* TextProcessor used directly: any chunk size, any text *)

Sentences == {<<"a.">>, <<"b.">>}

SentenceSeqs == UNION {[1..n -> Sentences] : n \in 0..MaxSentences}

ChunkSizes == (0 - MaxChunkSize)..MaxChunkSize

\* one File row and one TextProcessor constructed for it
InitChunk ==
    /\ disk = [n \in FileNames |-> NoFile]
    /\ \E ss \in SentenceSeqs, n \in ChunkSizes :
          /\ files = <<FileRow(NotesName, JoinSpace(ss))>>
          /\ tasks = <<TextProcessor(1, JoinSpace(ss), n)>>
    /\ file_chunks = <<>>
    /\ resp = NoResponse
    /\ opened = {}
    /\ pdf_in = NoFile
    /\ pdf_out = NotParsed

NextChunk == \E fail_at \in 0..MaxSentences : RunTask(1, fail_at)

SpecChunk == InitChunk /\ [][NextChunk]_vars

-----------------------------------------------------------------------------
(* PdfParser used directly: any PDF *)

PageKinds ==
    {Page("ok", <<"A.">>, TRUE, NoText), Page("ok", <<"B.">>, FALSE, NoText),
     Page("ok", NoText, TRUE, <<"S.">>), Page("ok", NoText, TRUE, NoText),
     Page("ok", NoText, FALSE, NoText), Page("raise", NoText, TRUE, <<"S.">>)}

PdfInputs ==
    {PdfFile(r, d, ps) :
        r \in BOOLEAN, d \in {"none", "ok", "raise", "denied"},
        ps \in UNION {[1..n -> PageKinds] : n \in 0..MaxPages}}

InitPdf ==
    /\ disk = [n \in FileNames |-> NoFile]
    /\ files = <<>>
    /\ file_chunks = <<>>
    /\ tasks = <<>>
    /\ resp = NoResponse
    /\ opened = {}
    /\ pdf_in \in PdfInputs
    /\ pdf_out = NotParsed

\* PdfParser().parse(filepath)
ParsePdf ==
    /\ ~pdf_out.done
    /\ pdf_out' = [done |-> TRUE, text |-> PdfParse(pdf_in).text,
                   ocr |-> PdfParse(pdf_in).ocr]
    /\ UNCHANGED <<disk, files, file_chunks, tasks, resp, opened, pdf_in>>

NextPdf == ParsePdf

SpecPdf == InitPdf /\ [][NextPdf]_vars

-----------------------------------------------------------------------------
(* Properties: helpers *)

\* the chunk texts a document owns, in chunk id order
RECURSIVE TextsOwned(_, _)
TextsOwned(table, file_id) ==
    IF table = <<>> THEN <<>>
    ELSE (IF Head(table).file_id = file_id
          THEN <<Head(table).chunk_text>> ELSE <<>>)
         \o TextsOwned(Tail(table), file_id)

\* the sentences of a chunk text: the single-space join reversed
Unjoin(chunk_text) == SplitSentences(chunk_text, <<>>)

-----------------------------------------------------------------------------
(* C3: for a sentence sequence of length S and a positive chunk size N, a   *)
(* completed chunk_and_embed has written exactly ceil(S/N) chunks, in       *)
(* document order; chunk k is the single-space join of sentences            *)
(* (k-1)N+1 .. min(kN, S), so every chunk but the last holds N sentences    *)
(* and the last holds S mod N (N when that is 0); the chunks' sentences     *)
(* concatenated are the original sentence sequence; S = 0 gives no chunk.   *)
ChunkingPartitionsSentences ==
    \A i \in 1..Len(tasks) :
        (tasks[i].status = "done" /\ tasks[i].chunk_size > 0) =>
            LET N == tasks[i].chunk_size
                sents == SentTokenize(tasks[i].text)
                S == Len(sents)
                texts == TextsOwned(file_chunks, tasks[i].file_id)
                count == Len(texts)
            IN  /\ count * N >= S
                /\ (count - 1) * N < S \/ (count = 0 /\ S = 0)
                /\ \A k \in 1..count :
                      /\ texts[k] =
                            JoinSpace(SubSeq(sents, (k - 1) * N + 1,
                                             Min2(k * N, S)))
                      /\ Len(Unjoin(texts[k])) =
                            IF k < count \/ S % N = 0 THEN N ELSE S % N
                /\ Flatten([k \in 1..count |-> Unjoin(texts[k])]) = sents

\* C3 witness: five sentences in chunks of two were written as three chunks
WitnessChunkingRemainder ==
    \E i \in 1..Len(tasks) :
        /\ tasks[i].status = "done"
        /\ tasks[i].chunk_size = 2
        /\ Len(SentTokenize(tasks[i].text)) = 5
        /\ Len(TextsOwned(file_chunks, tasks[i].file_id)) = 3

(* C7: a TextProcessor whose chunk size is 0 or negative never completes    *)
(* chunk_and_embed: it fails with the invalid-configuration error.          *)
NonPositiveChunkSizeFails ==
    \A i \in 1..Len(tasks) :
        (tasks[i].chunk_size <= 0 /\ tasks[i].status # "scheduled") =>
            tasks[i].status = "value_error"

-----------------------------------------------------------------------------
\* a PDF that PdfParser.parse processes page by page
PageByPage(file) ==
    /\ file.readable
    /\ file.decrypt \in {"none", "ok"}
    /\ \A i \in 1..Len(file.pages) : file.pages[i].extract = "ok"

\* the pages with an empty text layer
ImagePages(file) == {i \in 1..Len(file.pages) : file.pages[i].layer = NoText}

\* the document text when a page whose OCR fails contributes `failed`
TextWithOcrFailureAs(file, failed) ==
    Flatten([i \in 1..Len(file.pages) |->
                IF file.pages[i].layer # NoText THEN file.pages[i].layer
                ELSE IF file.pages[i].ocr_ok THEN file.pages[i].ocr
                ELSE failed])

(* C9 as stated: OCR runs on every page whose text layer is empty, a page   *)
(* whose OCR fails contributes the empty string, and the result is the      *)
(* concatenation, in page order, of the texts of the pages that succeeded.  *)
OcrFailureContributesEmpty ==
    (pdf_out.done /\ PageByPage(pdf_in)) =>
        /\ pdf_out.ocr = ImagePages(pdf_in)
        /\ pdf_out.text = TextWithOcrFailureAs(pdf_in, NoText)

(* C9 as amended: OCR runs on every page whose text layer is empty, a page  *)
(* whose OCR fails contributes the string "Error in OCR processing", and    *)
(* the text of every other page is kept, in page order.                     *)
OcrFailureContributesPlaceholder ==
    (pdf_out.done /\ PageByPage(pdf_in)) =>
        /\ pdf_out.ocr = ImagePages(pdf_in)
        /\ pdf_out.text = TextWithOcrFailureAs(pdf_in, ErrOcr)

\* C9 witness: a parsed PDF with a text page, a page whose OCR failed and a
\* page whose OCR succeeded
WitnessOcrFailureAmongPages ==
    /\ pdf_out.done
    /\ PageByPage(pdf_in)
    /\ \E i, j, k \in 1..Len(pdf_in.pages) :
          /\ pdf_in.pages[i].layer # NoText
          /\ pdf_in.pages[j].layer = NoText /\ ~pdf_in.pages[j].ocr_ok
          /\ pdf_in.pages[k].layer = NoText /\ pdf_in.pages[k].ocr # NoText
          /\ pdf_in.pages[k].ocr_ok
    /\ pdf_out.ocr # {}

-----------------------------------------------------------------------------
\* the text a correct extraction of `content` stored under `name` gives
ExtractedText(name, content) == ParserParse(Extension(name), content)

(* C1: after an upload of a file named *.txt or *.pdf (the database being   *)
(* available), the upload is acknowledged, the stored file holds the        *)
(* uploaded bytes and the Document record's text is the text extracted from *)
(* the uploaded bytes.                                                      *)
UploadStoresAndExtractsUploadedContent ==
    (/\ resp.kind = "upload"
     /\ resp.name \in {NotesName, ScanName}
     /\ ~(resp.status = 500 /\ disk[resp.name] = resp.content)) =>
        /\ resp.status = 200
        /\ disk[resp.name] = resp.content
        /\ files # <<>>
        /\ files[Len(files)].file_name = resp.name
        /\ files[Len(files)].file_content =
              ExtractedText(resp.name, resp.content)

-----------------------------------------------------------------------------
\* what a step that handles an upload or runs a task must satisfy for C2
AckStep ==
    /\ Len(tasks') # Len(tasks) =>
          /\ Len(tasks') = Len(tasks) + 1
          /\ Len(files') = Len(files) + 1
          /\ resp'.kind = "upload" /\ resp'.status = 200
          /\ LET t == tasks'[Len(tasks')]
             IN  /\ t.status = "scheduled"
                 /\ t.file_id = Len(files')
                 /\ files'[t.file_id].file_name = resp'.name
                 /\ files'[t.file_id].file_content = t.text
                 /\ OwnedChunks(file_chunks', t.file_id) = {}
                 /\ \A j \in 1..Len(tasks) : tasks[j].file_id # t.file_id
          /\ file_chunks' = file_chunks
    /\ Len(files') # Len(files) => Len(tasks') = Len(tasks) + 1
    /\ file_chunks' # file_chunks =>
          /\ Len(tasks') = Len(tasks)
          /\ resp' = resp
          /\ \E i \in 1..Len(tasks) :
                /\ tasks[i].status = "scheduled"
                /\ tasks'[i].status = "done"
                /\ \A c \in (Len(file_chunks) + 1)..Len(file_chunks') :
                      file_chunks'[c].file_id = tasks[i].file_id

(* C2: the step that acknowledges an upload has committed the Document      *)
(* record with its text, has scheduled exactly one chunk_and_embed task for *)
(* it and has written no chunk; chunks are written only by a later step     *)
(* that runs a task scheduled before, never by the step that responds.      *)
AckAfterCommitBeforeIngestion == [][AckStep]_vars

\* C2 witness: an upload is acknowledged, its record is committed, its task
\* is still scheduled and the document has no chunk
WitnessAckBeforeIngestion ==
    /\ resp.kind = "upload" /\ resp.status = 200
    /\ \E i \in 1..Len(tasks) :
          /\ tasks[i].status = "scheduled"
          /\ tasks[i].file_id = Len(files)
          /\ files[tasks[i].file_id].file_content = tasks[i].text
          /\ Len(ChunksOf(tasks[i].text, tasks[i].chunk_size)) > 0
          /\ OwnedChunks(file_chunks, tasks[i].file_id) = {}

-----------------------------------------------------------------------------
\* the chunk ids of a response body
BodyIds(body) == [k \in 1..Len(body) |-> body[k].chunk_id]

\* what a 200 response of find_similar_chunks must satisfy for C4
QueryResultOk(table, r) ==
    LET ids == BodyIds(r.body)
        qvec == Embed(r.question)
        owned == {c \in 1..Len(table) : table[c].file_id = r.file_id}
        dist(c) == L2Sq(table[c].embedding_vector, qvec)
    IN  /\ Len(ids) = Min2(Limit, Cardinality(owned))
        /\ \A k \in 1..Len(ids) :
              /\ ids[k] \in owned
              /\ r.body[k].chunk_text = table[ids[k]].chunk_text
        /\ \A k, l \in 1..Len(ids) : k < l =>
              /\ ids[k] # ids[l]
              /\ dist(ids[k]) <= dist(ids[l])
        /\ \A c \in owned :
              (\A k \in 1..Len(ids) : ids[k] # c) =>
                 \A k \in 1..Len(ids) : dist(ids[k]) <= dist(c)
        /\ (owned = {} \/ r.file_id \notin 1..Len(files)) => r.body = <<>>

(* C4: a query whose question is embedded returns status 200 with exactly   *)
(* min(Limit, owned) results, each a chunk of the queried document, none    *)
(* twice, in non-decreasing L2 distance to the question and no farther than *)
(* any chunk left out; a document id with no chunks or no record gives the  *)
(* empty list; the only error is the embedding call's.                      *)
QueryReturnsNearestOwnedChunks ==
    [][(resp' # resp /\ resp'.kind = "query") =>
          /\ file_chunks' = file_chunks
          /\ resp'.status = 200 => QueryResultOk(file_chunks, resp')
          /\ resp'.status # 200 => resp'.detail = "embedding error"]_vars

\* C4 witness: a query of a document owning more than Limit chunks returned
\* Limit results while the index also holds another document's chunks
WitnessQueryAtLimit ==
    /\ resp.kind = "query" /\ resp.status = 200
    /\ Len(resp.body) = Limit
    /\ Cardinality({c \in 1..Len(file_chunks) :
                       file_chunks[c].file_id = resp.file_id}) > Limit
    /\ \E c \in 1..Len(file_chunks) : file_chunks[c].file_id # resp.file_id

\* ties broken by ascending chunk id, also at the cut-off
TieBreakOk(table, r) ==
    LET ids == BodyIds(r.body)
        qvec == Embed(r.question)
        owned == {c \in 1..Len(table) : table[c].file_id = r.file_id}
        dist(c) == L2Sq(table[c].embedding_vector, qvec)
        Before(c, e) == dist(c) < dist(e) \/ (dist(c) = dist(e) /\ c < e)
    IN  /\ \A k, l \in 1..Len(ids) : k < l => Before(ids[k], ids[l])
        /\ \A c \in owned :
              (\A k \in 1..Len(ids) : ids[k] # c) =>
                 \A k \in 1..Len(ids) : Before(ids[k], c)

(* C5: chunks of the queried document at equal distance from the question   *)
(* are returned in ascending chunk id order, also when the tie crosses the  *)
(* cut-off at Limit, so the result is a function of the index content.      *)
TiesInChunkIdOrder ==
    [][(resp' # resp /\ resp'.kind = "query" /\ resp'.status = 200) =>
          TieBreakOk(file_chunks, resp')]_vars

-----------------------------------------------------------------------------
(* C6: in every committed state a document owns none of the chunks of its   *)
(* text or all of them, in order: a task that has not completed (scheduled, *)
(* or stopped by a failed embedding call, whichever chunk it failed for)    *)
(* has written nothing, a completed one has written every chunk.            *)
AllChunksOrNone ==
    /\ \A i \in 1..Len(tasks) :
          LET texts == TextsOwned(file_chunks, tasks[i].file_id)
          IN  IF tasks[i].status = "done"
              THEN texts = ChunksOf(tasks[i].text, tasks[i].chunk_size)
              ELSE texts = <<>>
    /\ \A f \in 1..Len(files) :
          TextsOwned(file_chunks, f) \in
             {<<>>, ChunksOf(files[f].file_content, DefaultChunkSize)}

\* C6 witness: an ingestion of several chunks stopped by a failed embedding
\* call left nothing, while another document has all its chunks
WitnessFailedIngestionWroteNothing ==
    \E i, j \in 1..Len(tasks) :
        /\ tasks[i].status = "embedding_error"
        /\ Len(ChunksOf(tasks[i].text, tasks[i].chunk_size)) > 1
        /\ OwnedChunks(file_chunks, tasks[i].file_id) = {}
        /\ tasks[j].status = "done"
        /\ OwnedChunks(file_chunks, tasks[j].file_id) # {}

-----------------------------------------------------------------------------
\* the final dot segment of a name is exactly txt or pdf
EndsInTxtOrPdf(name) ==
    \E ext \in {"txt", "pdf"} :
        /\ name[Len(name)] = ext
        /\ Len(name) = 1 \/ name[Len(name) - 1] = DOT

\* the path of the stored file ends in a dot followed by txt or pdf
PathHasParser(name) ==
    /\ Len(name) > 1
    /\ name[Len(name) - 1] = DOT
    /\ name[Len(name)] \in {"txt", "pdf"}

(* C8: an upload whose file name's final dot segment is not exactly txt or  *)
(* pdf is answered 400 "File type not allowed", and no file of such a name  *)
(* is ever written or opened, no Document record of such a name exists and  *)
(* so no task for one; a path with no registered parser is never opened     *)
(* and its upload is never acknowledged.                                    *)
DisallowedTypeRejectedBeforeWork ==
    /\ (resp.kind = "upload" /\ ~EndsInTxtOrPdf(resp.name)) =>
          resp.status = 400 /\ resp.detail = "File type not allowed"
    /\ \A n \in FileNames : ~EndsInTxtOrPdf(n) =>
          /\ disk[n] = NoFile
          /\ n \notin opened
          /\ \A f \in 1..Len(files) : files[f].file_name # n
    /\ \A n \in FileNames : ~PathHasParser(n) =>
          /\ disk[n] = NoFile
          /\ n \notin opened
          /\ (resp.kind = "upload" /\ resp.name = n) => resp.status # 200
    /\ \A i \in 1..Len(tasks) :
          /\ tasks[i].file_id \in 1..Len(files)
          /\ EndsInTxtOrPdf(files[tasks[i].file_id].file_name)

\* C8 witness: a.pdf.exe was rejected after another upload had been accepted
WitnessDisallowedRejected ==
    /\ resp.kind = "upload"
    /\ resp.name = DoubleName
    /\ resp.status = 400
    /\ files # <<>>

-----------------------------------------------------------------------------
\* what every step must satisfy for C10
ReferentialStep ==
    /\ Len(files') >= Len(files)
    /\ SubSeq(files', 1, Len(files)) = files
    /\ Len(file_chunks') >= Len(file_chunks)
    /\ SubSeq(file_chunks', 1, Len(file_chunks)) = file_chunks
    /\ \A c \in (Len(file_chunks) + 1)..Len(file_chunks') :
          file_chunks'[c].file_id \in 1..Len(files)
    /\ \A i \in 1..Len(tasks) :
          (tasks[i].status = "scheduled" /\ tasks'[i].status # "scheduled") =>
             tasks[i].file_id \in 1..Len(files)

(* C10: Document records and chunks are never removed or changed; every     *)
(* chunk a step creates is owned by a document id whose record was          *)
(* committed before that step; a task only runs for a document id whose     *)
(* record is committed.                                                     *)
ChunkOwnerCommittedFirst == [][ReferentialStep]_vars

\* C10 witness: two documents are committed and both own chunks
WitnessTwoDocumentsWithChunks ==
    /\ Len(files) >= 2
    /\ OwnedChunks(file_chunks, 1) # {}
    /\ OwnedChunks(file_chunks, 2) # {}

====
